---- MODULE Spec2Model ----
(***************************************************************************)
(* Multi-tenant user provisioning and login validation of CRM_BOLT.        *)
(*                                                                         *)
(* The database side is the trigger function handle_new_auth_user(), fired *)
(* AFTER INSERT ON auth.users, and the function validate_login_access().   *)
(* Both run with search_path = public, so an unqualified "profiles" is the *)
(* table public.profiles.  auth.users.id is the primary key of auth.users, *)
(* so the trigger runs once for an identity that is created.               *)
(***************************************************************************)
EXTENDS Integers, FiniteSets, Sequences, TLC

(***************************************************************************)
(* Bounds and value sets                                                   *)
(***************************************************************************)
\* number of identities (uuids are modelled as 1..MaxIds)
MaxIds == 2

Ids == 1..MaxIds

\* SQL NULL / absent JSON key
NULL == "NULL"

\* the profile partitions the migration refers to: public.profiles,
\* quimicinter.profiles, qalinkforce.profiles
KnownSchemas == {"public", "quimicinter", "qalinkforce"}

\* the tenants an administrator is replicated into
ReplicationSet == {"quimicinter", "qalinkforce"}

\* a schema name that has no profiles table
UnknownSchema == "other"

\* values of raw_user_meta_data->>'schema_name'
MetaSchemas == KnownSchemas \cup {UnknownSchema, NULL}

\* values of the x-schema-name request header
Headers == {"quimicinter", UnknownSchema, NULL}

\* values of raw_user_meta_data->>'role' (role is the enumeration admin | user)
MetaRoles == {"admin", "user", NULL}

\* values of raw_user_meta_data->>'full_name'
MetaNames == {"Ann", NULL}

\* the statement of the trigger that raises an error for a reason of the
\* database (a violated constraint, a missing relation): 0 when none does, else
\* 1 for the dynamic insert, 2 for the insert into quimicinter.profiles, 3 for
\* the insert into qalinkforce.profiles
Faults == 0..3

\* values of the p_schema argument of validate_login_access
RequestedSchemas == KnownSchemas \cup {UnknownSchema, NULL}

\* values of the user_id argument: every identity and one uuid never created
RequestedIds == 0..MaxIds

\* auth.users.email of identity i
EmailOf(i) == <<"mail", i>>

\* raw_user_meta_data->>'full_name' of identity i: like the email it belongs to
\* the identity; every other identity signs up without a name
NameOf(i) == IF i % 2 = 1 THEN "Ann" ELSE NULL

\* the rows inserted into auth.users: the record NEW of the trigger
NewRows ==
  {r \in [id : Ids, schema_name : MetaSchemas, role : MetaRoles,
          full_name : MetaNames] : r.full_name = NameOf(r.id)}

(***************************************************************************)
(* State                                                                   *)
(***************************************************************************)
VARIABLES
  users,      \* ids of the rows of auth.users
  profiles,   \* profiles[s][i]: the row with id i of s.profiles, s in KnownSchemas
  clock,      \* now(): the time of the current transaction
  resolved,   \* resolved[i]: v_schema and v_role of the insert that created i
  last        \* the last statement run and what it returned

vars == <<users, profiles, clock, resolved, last>>

\* no statement has run yet
NoOp ==
  [op |-> "none", id |-> 0, metaSchema |-> NULL, header |-> NULL,
   metaRole |-> NULL, v_schema |-> NULL, v_role |-> NULL, outcome |-> NULL,
   failedAt |-> 0, p_schema |-> NULL, result |-> NULL]

\* an empty table
EmptyTable == <<>>

(***************************************************************************)
(* handle_new_auth_user                                                    *)
(***************************************************************************)
\* COALESCE(a, b, c): the first argument that is not NULL
COALESCE3(a, b, c) == IF a # NULL THEN a ELSE IF b # NULL THEN b ELSE c

\* COALESCE(a, b)
COALESCE2(a, b) == IF a # NULL THEN a ELSE b

\* the header wins over the metadata
Resolve_v_schema_HeaderFirst(metaSchema, header) ==
  COALESCE3(header, metaSchema, "public")

\* v_schema := COALESCE(metadata schema_name, header x-schema-name, 'public')
Resolve_v_schema(metaSchema, header) == COALESCE3(metaSchema, header, "public")

\* EXISTS (SELECT 1 FROM profiles WHERE schema_name = v_schema): "profiles"
\* is public.profiles under search_path = public
ExistsProfileWithSchema(pf, v_schema) ==
  \E i \in DOMAIN pf["public"] : pf["public"][i].schema_name = v_schema

\* the bootstrap rule is left out
Resolve_v_role_NoBootstrap(pf, metaRole, v_schema) == COALESCE2(metaRole, "user")

\* v_role := COALESCE(metadata role, CASE WHEN NOT EXISTS (...) THEN 'admin'
\* ELSE 'user' END)
Resolve_v_role(pf, metaRole, v_schema) ==
  COALESCE2(metaRole,
            IF ~ExistsProfileWithSchema(pf, v_schema) THEN "admin" ELSE "user")

\* the VALUES (...) list of an insert
ProfileRow(NEWROW, role, schema_name, now) ==
  [email       |-> EmailOf(NEWROW.id),
   full_name   |-> COALESCE2(NEWROW.full_name, ""),
   role        |-> role,
   status      |-> "active",
   schema_name |-> schema_name,
   created_at  |-> now,
   updated_at  |-> now]

\* the conflict clause replaces the whole row, created_at included
Upsert_RowReplaced(pf, s, id, row) ==
  IF id \in DOMAIN pf[s]
  THEN [pf EXCEPT ![s][id] = row]
  ELSE [pf EXCEPT ![s] = @ @@ (id :> row)]

\* INSERT INTO s.profiles ... ON CONFLICT (id) DO UPDATE SET email, full_name,
\* role, updated_at
Upsert(pf, s, id, row) ==
  IF id \in DOMAIN pf[s]
  THEN [pf EXCEPT ![s][id] = [@ EXCEPT !.email = row.email,
                                        !.full_name = row.full_name,
                                        !.role = row.role,
                                        !.updated_at = row.updated_at]]
  ELSE [pf EXCEPT ![s] = @ @@ (id :> row)]

\* the dynamic statement EXECUTE format('INSERT INTO %I.profiles ...', v_schema)
\* raises an error when v_schema.profiles does not exist
ResolvedUpsertFails(v_schema) == v_schema \notin KnownSchemas

\* the dynamic statement writes the role user whatever v_role is
UpsertResolved_RoleUser(pf, NEWROW, v_schema, v_role, now) ==
  Upsert(pf, v_schema, NEWROW.id, ProfileRow(NEWROW, "user", v_schema, now))

\* the dynamic statement writes the schema name public whatever v_schema is
UpsertResolved_SchemaPublic(pf, NEWROW, v_schema, v_role, now) ==
  Upsert(pf, v_schema, NEWROW.id, ProfileRow(NEWROW, v_role, "public", now))

\* the row the dynamic statement writes into v_schema.profiles
UpsertResolved(pf, NEWROW, v_schema, v_role, now) ==
  Upsert(pf, v_schema, NEWROW.id, ProfileRow(NEWROW, v_role, v_schema, now))

\* the guard of the replica in quimicinter names the wrong schema
UpsertQuimicinter_WrongGuard(pf, NEWROW, v_schema, now) ==
  IF v_schema # "public"
  THEN Upsert(pf, "quimicinter", NEWROW.id,
              ProfileRow(NEWROW, "admin", "quimicinter", now))
  ELSE pf

\* IF v_schema != 'quimicinter' THEN INSERT INTO quimicinter.profiles ...
UpsertQuimicinter(pf, NEWROW, v_schema, now) ==
  IF v_schema # "quimicinter"
  THEN Upsert(pf, "quimicinter", NEWROW.id,
              ProfileRow(NEWROW, "admin", "quimicinter", now))
  ELSE pf

\* the replica in qalinkforce is left out
UpsertQalinkforce_Skipped(pf, NEWROW, v_schema, now) == pf

\* IF v_schema != 'qalinkforce' THEN INSERT INTO qalinkforce.profiles ...
UpsertQalinkforce(pf, NEWROW, v_schema, now) ==
  IF v_schema # "qalinkforce"
  THEN Upsert(pf, "qalinkforce", NEWROW.id,
              ProfileRow(NEWROW, "admin", "qalinkforce", now))
  ELSE pf

\* the replicas are written whatever the role
ReplicateAdmin_AnyRole(pf, NEWROW, v_schema, v_role, now) ==
  UpsertQalinkforce(UpsertQuimicinter(pf, NEWROW, v_schema, now),
                    NEWROW, v_schema, now)

\* IF v_role = 'admin' THEN ... END IF
ReplicateAdmin(pf, NEWROW, v_schema, v_role, now) ==
  IF v_role = "admin"
  THEN UpsertQalinkforce(UpsertQuimicinter(pf, NEWROW, v_schema, now),
                         NEWROW, v_schema, now)
  ELSE pf

\* an administrator is written into public.profiles too
TriggerBody_PublicToo(pf, NEWROW, v_schema, v_role, now) ==
  LET done == ReplicateAdmin(UpsertResolved(pf, NEWROW, v_schema, v_role, now),
                             NEWROW, v_schema, v_role, now)
  IN  IF v_role = "admin" /\ v_schema # "public"
      THEN Upsert(done, "public", NEWROW.id,
                  ProfileRow(NEWROW, "admin", "public", now))
      ELSE done

\* the body of the trigger function when no statement fails
TriggerBody(pf, NEWROW, v_schema, v_role, now) ==
  ReplicateAdmin(UpsertResolved(pf, NEWROW, v_schema, v_role, now),
                 NEWROW, v_schema, v_role, now)

\* statement k of the trigger is executed for this v_schema and v_role
StatementRuns(k, v_schema, v_role) ==
  CASE k = 1 -> TRUE
    [] k = 2 -> v_role = "admin" /\ v_schema # "quimicinter"
    [] k = 3 -> v_role = "admin" /\ v_schema # "qalinkforce"

\* the statement at which the trigger raises its error, 0 when it returns NEW;
\* a fault of a statement that is not executed does not happen
FailedStatement(v_schema, v_role, fault) ==
  IF ResolvedUpsertFails(v_schema) THEN 1
  ELSE IF fault # 0 /\ StatementRuns(fault, v_schema, v_role) THEN fault
  ELSE 0

\* the partitions as written by the statements that ran before statement k
WrittenBefore(pf, NEWROW, v_schema, v_role, now, k) ==
  CASE k = 1 -> pf
    [] k = 2 -> UpsertResolved(pf, NEWROW, v_schema, v_role, now)
    [] k = 3 -> UpsertQuimicinter(
                  UpsertResolved(pf, NEWROW, v_schema, v_role, now),
                  NEWROW, v_schema, now)

\* the rows written before the error are kept
Rollback_PartialKept(before, partial) == partial

\* the error aborts the transaction of the INSERT INTO auth.users: the
\* partitions are as they were before the statement
Rollback(before, partial) == before

\* an error of a statement is caught in the trigger: the identity is created
\* with the rows written before the error
handle_new_auth_user_ErrorCaught(NEWROW, header, fault) ==
  LET v_schema == Resolve_v_schema(NEWROW.schema_name, header)
      v_role   == Resolve_v_role(profiles, NEWROW.role, v_schema)
      now      == clock + 1
      failedAt == FailedStatement(v_schema, v_role, fault)
  IN  /\ NEWROW.id \notin users
      /\ fault \in {0, failedAt}
      /\ profiles' = IF failedAt # 0
                     THEN WrittenBefore(profiles, NEWROW, v_schema, v_role, now,
                                        failedAt)
                     ELSE TriggerBody(profiles, NEWROW, v_schema, v_role, now)
      /\ users' = users \cup {NEWROW.id}
      /\ clock' = now
      /\ resolved' = resolved @@
           (NEWROW.id :> [v_schema |-> v_schema, v_role |-> v_role])
      /\ last' = [NoOp EXCEPT !.op = "insert", !.id = NEWROW.id,
                    !.metaSchema = NEWROW.schema_name, !.header = header,
                    !.metaRole = NEWROW.role,
                    !.v_schema = v_schema, !.v_role = v_role,
                    !.outcome = "committed", !.failedAt = failedAt]

\* INSERT INTO auth.users fires the trigger in the inserting transaction: an
\* error raised in the trigger aborts the transaction, so neither the auth.users
\* row nor any profile row is kept
handle_new_auth_user(NEWROW, header, fault) ==
  LET v_schema == Resolve_v_schema(NEWROW.schema_name, header)
      v_role   == Resolve_v_role(profiles, NEWROW.role, v_schema)
      now      == clock + 1
      failedAt == FailedStatement(v_schema, v_role, fault)
  IN  /\ NEWROW.id \notin users
      /\ fault \in {0, failedAt}
      /\ IF failedAt # 0
         THEN /\ profiles' = Rollback(profiles,
                                WrittenBefore(profiles, NEWROW, v_schema, v_role,
                                              now, failedAt))
              /\ UNCHANGED <<users, clock, resolved>>
         ELSE /\ profiles' = TriggerBody(profiles, NEWROW, v_schema, v_role, now)
              /\ users' = users \cup {NEWROW.id}
              /\ clock' = now
              /\ resolved' = resolved @@
                   (NEWROW.id :> [v_schema |-> v_schema, v_role |-> v_role])
      /\ last' = [NoOp EXCEPT !.op = "insert", !.id = NEWROW.id,
                    !.metaSchema = NEWROW.schema_name, !.header = header,
                    !.metaRole = NEWROW.role,
                    !.v_schema = v_schema, !.v_role = v_role,
                    !.outcome = IF failedAt # 0 THEN "aborted" ELSE "committed",
                    !.failedAt = failedAt]

(***************************************************************************)
(* validate_login_access                                                   *)
(***************************************************************************)
\* the CTE user_info: the rows with id = user_id of the three partitions
user_info(pf, user_id) ==
  {pf[s][user_id] : s \in {t \in KnownSchemas : user_id \in DOMAIN pf[t]}}

\* administrators are compared by schema like regular users
AccessForRow_NoAdminBypass(row, p_schema) ==
  IF p_schema = NULL THEN "null"
  ELSE IF row.schema_name = p_schema THEN "true" ELSE "false"

\* the statements after SELECT ... INTO v_role, v_user_schema for the row found
AccessForRow(row, p_schema) ==
  IF row.role = "admin" THEN "true"
  ELSE IF p_schema = NULL THEN "null"
  ELSE IF row.schema_name = p_schema THEN "true" ELSE "false"

\* the values validate_login_access can return: LIMIT 1 without ORDER BY takes
\* any one of the rows of user_info
AccessResults(pf, user_id, p_schema) ==
  IF user_info(pf, user_id) = {}
  THEN {"false"}
  ELSE {AccessForRow(row, p_schema) : row \in user_info(pf, user_id)}

validate_login_access(user_id, p_schema) ==
  /\ \E r \in AccessResults(profiles, user_id, p_schema) :
        last' = [NoOp EXCEPT !.op = "validate", !.id = user_id,
                             !.p_schema = p_schema, !.result = r]
  /\ UNCHANGED <<users, profiles, clock, resolved>>

(***************************************************************************)
(* InvoiceList: data                                                       *)
(***************************************************************************)
\* const itemsPerPage = 30
itemsPerPage == 30

\* number of invoices in the backend table when the component mounts
NumInvoices == 33

InvoiceIds == 1..NumInvoices

\* the empty string of a date input; days are numbered from 1
NoDate == 0

\* new Date(now.getFullYear(), now.getMonth(), 1) as a day number
firstDayOfMonth == 2

\* no invoice selected: null
NoInvoice == 0

\* the row with id i that billingAPI.getInvoices returns.  ncf is a fixed-width
\* receipt number and customer the full name of the customer: both are given
\* by their rank in the native string order, 0 being '' (no customer).
Invoice(i) ==
  [id             |-> i,
   ncf            |-> i,
   customer       |-> i % 3,
   issue_date     |-> CASE i \in {1, 3, 5} -> 2 [] i = 4 -> 3 [] OTHER -> 1,
   total_amount   |-> 100 * ((i % 4) + 1),
   status         |-> CASE i = 1 -> "draft" [] i = 3 -> "voided"
                        [] OTHER -> "issued",
   payment_status |-> CASE i = 4 -> "paid" [] i = 5 -> "partial"
                        [] OTHER -> "pending"]

\* the characters of the decimal digit d
Digit(d) == <<"0", "1", "2", "3", "4", "5", "6", "7", "8", "9">>[d + 1]

\* invoice.ncf as text, one character per element: B01, B02, ...
NcfText(i) == <<"B", Digit((i \div 10) % 10), Digit(i % 10)>>

\* invoice.customer is present
HasCustomer(i) == Invoice(i).customer # 0

\* invoice.customer.full_name as text
FullNameText(i) ==
  IF Invoice(i).customer = 1 THEN <<"A", "n", "a">> ELSE <<"L", "u", "z">>

\* the texts typed in the search box
SearchInputs == {<<>>, <<"A", "N">>, <<"b", "3">>}

\* String.prototype.toLowerCase, character by character
LowerChar(c) ==
  CASE c = "A" -> "a" [] c = "B" -> "b" [] c = "L" -> "l" [] c = "N" -> "n"
    [] OTHER -> c

toLowerCase(text) == [k \in DOMAIN text |-> LowerChar(text[k])]

\* String.prototype.includes
includes(text, term) ==
  \E k \in 0..(Len(text) - Len(term)) :
    SubSeq(text, k + 1, k + Len(term)) = term

\* the test of invoices.filter: the ncf or the name of the customer includes
\* the text, letter case apart
Matches(i, text) ==
  \/ includes(toLowerCase(NcfText(i)), toLowerCase(text))
  \/ /\ HasCustomer(i)
     /\ includes(toLowerCase(FullNameText(i)), toLowerCase(text))

\* the invoices that pass the test, for each text typed
SearchMatches ==
  [text \in SearchInputs |-> {i \in InvoiceIds : Matches(i, text)}]

\* const STATUS_ORDER = { draft: 0, issued: 1, voided: 2 }
STATUS_ORDER(status) ==
  CASE status = "draft" -> 0 [] status = "issued" -> 1 [] status = "voided" -> 2

\* const PAYMENT_STATUS_ORDER = { pending: 0, partial: 1, paid: 2 }
PAYMENT_STATUS_ORDER(payment_status) ==
  CASE payment_status = "pending" -> 0 [] payment_status = "partial" -> 1
    [] payment_status = "paid" -> 2

\* the buttons that call handleFilter
FilterNames == {"month", "draft", "paid", "pending", "voided", "history"}

\* the columns whose header calls handleSort
SortKeys ==
  {"ncf", "customer", "issue_date", "total_amount", "status", "payment_status"}

\* the values typed into the two date inputs
DateInputs == {NoDate, 2}

\* useState({ startDate: '', endDate: '' })
EmptyRange == [startDate |-> NoDate, endDate |-> NoDate]

\* the rows of the backend table srv in the order getInvoices returns them
getInvoices(srv) ==
  SelectSeq([i \in 1..NumInvoices |-> i], LAMBDA i : i \in srv)

(***************************************************************************)
(* InvoiceList: loadInvoices                                               *)
(***************************************************************************)
\* if (dateRange.startDate && dateRange.endDate) filter by issue_date
FilterByDateRange(data, range) ==
  IF range.startDate # NoDate /\ range.endDate # NoDate
  THEN SelectSeq(data, LAMBDA i : /\ Invoice(i).issue_date >= range.startDate
                                  /\ Invoice(i).issue_date <= range.endDate)
  ELSE data

\* without a category every fetched invoice is listed
PassesFilter_DefaultAll(i, filter) ==
  LET inv == Invoice(i)
  IN  CASE filter = "month"   -> /\ inv.issue_date >= firstDayOfMonth
                                 /\ inv.status = "issued"
        [] filter = "draft"   -> inv.status = "draft"
        [] filter = "paid"    -> /\ inv.payment_status = "paid"
                                 /\ inv.status = "issued"
        [] filter = "pending" -> /\ inv.payment_status # "paid"
                                 /\ inv.status = "issued"
        [] filter = "voided"  -> inv.status = "voided"
        [] OTHER              -> TRUE

\* the test an invoice passes under activeFilter
PassesFilter(i, filter) ==
  LET inv == Invoice(i)
  IN  CASE filter = ""        -> inv.status = "issued" \/ inv.status = "draft"
        [] filter = "month"   -> /\ inv.issue_date >= firstDayOfMonth
                                 /\ inv.status = "issued"
        [] filter = "draft"   -> inv.status = "draft"
        [] filter = "paid"    -> /\ inv.payment_status = "paid"
                                 /\ inv.status = "issued"
        [] filter = "pending" -> /\ inv.payment_status # "paid"
                                 /\ inv.status = "issued"
        [] filter = "voided"  -> inv.status = "voided"
        [] OTHER              -> TRUE

\* if (!activeFilter) ... else switch (activeFilter) ...
FilterByCategory(data, filter) ==
  SelectSeq(data, LAMBDA i : PassesFilter(i, filter))

\* the switch (sortConfig.key) that picks aValue and bValue
SortValue(i, key) ==
  CASE key = "status"         -> STATUS_ORDER(Invoice(i).status)
    [] key = "payment_status" -> PAYMENT_STATUS_ORDER(Invoice(i).payment_status)
    [] key = "customer"       -> Invoice(i).customer
    [] key = "ncf"            -> Invoice(i).ncf
    [] key = "issue_date"     -> Invoice(i).issue_date
    [] key = "total_amount"   -> Invoice(i).total_amount

\* the comparator does not look at the direction
Compare_DirectionIgnored(a, b, sc) ==
  LET aValue == SortValue(a, sc.key)
      bValue == SortValue(b, sc.key)
  IN  IF aValue < bValue THEN -1 ELSE IF aValue > bValue THEN 1 ELSE 0

\* the comparator passed to filteredData.sort
Compare(a, b, sc) ==
  LET aValue == SortValue(a, sc.key)
      bValue == SortValue(b, sc.key)
  IN  IF aValue < bValue THEN (IF sc.direction = "asc" THEN -1 ELSE 1)
      ELSE IF aValue > bValue THEN (IF sc.direction = "asc" THEN 1 ELSE -1)
      ELSE 0

\* x is put behind the elements that do not come after it
RECURSIVE InsertStable(_, _, _)
InsertStable(sorted, x, sc) ==
  IF sorted = <<>> THEN <<x>>
  ELSE IF Compare(sorted[Len(sorted)], x, sc) <= 0 THEN Append(sorted, x)
  ELSE Append(InsertStable(SubSeq(sorted, 1, Len(sorted) - 1), x, sc),
              sorted[Len(sorted)])

RECURSIVE SortFrom(_, _, _, _)
SortFrom(data, k, acc, sc) ==
  IF k > Len(data) THEN acc
  ELSE SortFrom(data, k + 1, InsertStable(acc, data[k], sc), sc)

\* Array.prototype.sort with the comparator: a stable sort
SortInvoices(data, sc) == SortFrom(data, 1, <<>>, sc)

\* the list loadInvoices passes to setInvoices for the rows data
LoadedInvoices(data, req) ==
  SortInvoices(FilterByCategory(FilterByDateRange(data, req.dateRange),
                                req.activeFilter),
               req.sortConfig)

(***************************************************************************)
(* InvoiceList: loadStats                                                  *)
(***************************************************************************)
RECURSIVE SumTotals(_)
SumTotals(ids) ==
  IF ids = {} THEN 0
  ELSE LET i == CHOOSE j \in ids : TRUE
       IN  Invoice(i).total_amount + SumTotals(ids \ {i})

\* { count, total } of a set of invoices
Bucket(ids) == [count |-> Cardinality(ids), total |-> SumTotals(ids)]

\* the statistics of the current month (the top products are left out)
StatsOf(srv) ==
  LET monthly == {i \in srv : Invoice(i).issue_date >= firstDayOfMonth}
  IN  [issuedInvoices  |-> Bucket({i \in monthly : Invoice(i).status = "issued"}),
       paidInvoices    |-> Bucket({i \in monthly :
                                     /\ Invoice(i).status = "issued"
                                     /\ Invoice(i).payment_status = "paid"}),
       pendingInvoices |-> Bucket({i \in monthly :
                                     /\ Invoice(i).status = "issued"
                                     /\ Invoice(i).payment_status # "paid"}),
       voidedInvoices  |-> Bucket({i \in monthly : Invoice(i).status = "voided"}),
       draftInvoices   |-> Bucket({i \in monthly : Invoice(i).status = "draft"})]

\* useState of stats
NoStats ==
  [issuedInvoices |-> Bucket({}), paidInvoices |-> Bucket({}),
   pendingInvoices |-> Bucket({}), voidedInvoices |-> Bucket({}),
   draftInvoices |-> Bucket({})]

(***************************************************************************)
(* InvoiceList: state                                                      *)
(***************************************************************************)
VARIABLES
  server,           \* ids of the rows of the backend table invoices
  invoices,         \* useState<Invoice[]>: the ids of the list, in its order
  loading,          \* useState(true)
  selectedInvoice,  \* useState<Invoice | null>
  showEditModal,    \* useState(false)
  currentPage,      \* useState(1)
  activeFilter,     \* useState(''): '' when no category button is active
  dateRange,        \* useState({ startDate, endDate })
  sortConfig,       \* useState({ key: 'status', direction: 'asc' })
  stats,            \* useState of the monthly statistics
  search,           \* useState(''): the text of the search box
  inflight,         \* the requests awaited by loadInvoices and handleDelete,
                    \* in the order they were sent
  statsPending,     \* number of requests awaited by loadStats
  ui                \* the last step of the component

uivars ==
  <<server, invoices, loading, selectedInvoice, showEditModal, currentPage,
    activeFilter, dateRange, sortConfig, stats, search, inflight, statsPending,
    ui>>

allvars == <<vars, uivars>>

\* the state a call of loadInvoices closes over
Request(filter, range, sc) ==
  [activeFilter |-> filter, dateRange |-> range, sortConfig |-> sc]

NoRequest == Request("", EmptyRange, [key |-> "status", direction |-> "asc"])

\* a request on its way: kind is "load" (billingAPI.getInvoices awaited by
\* loadInvoices) or "delete" (the delete awaited by handleDelete); thenStats
\* tells that handleDelete awaits this loadInvoices and calls loadStats after
\* it; overtaken tells that a loadInvoices called later has already resolved
Pending(kind, id, req, thenStats) ==
  [kind |-> kind, id |-> id, req |-> req, thenStats |-> thenStats,
   overtaken |-> FALSE]

\* no step yet
NoStep == [op |-> "mount", id |-> NoInvoice, req |-> NoRequest,
           overtaken |-> FALSE]

Step(op, id) == [NoStep EXCEPT !.op = op, !.id = id]

\* inflight without its k-th request
RemoveAt(seq, k) == SubSeq(seq, 1, k - 1) \o SubSeq(seq, k + 1, Len(seq))

\* the invoice passes the test of invoices.filter for the text of the search box
MatchesSearch(i) == i \in SearchMatches[search]

filteredInvoices == SelectSeq(invoices, MatchesSearch)

\* Math.ceil(filteredInvoices.length / itemsPerPage)
totalPages == (Len(filteredInvoices) + itemsPerPage - 1) \div itemsPerPage

Min(a, b) == IF a < b THEN a ELSE b

Max(a, b) == IF a > b THEN a ELSE b

\* filteredInvoices.slice((currentPage - 1) * itemsPerPage,
\*                        currentPage * itemsPerPage)
paginatedInvoices ==
  SubSeq(filteredInvoices, (currentPage - 1) * itemsPerPage + 1,
         Min(currentPage * itemsPerPage, Len(filteredInvoices)))

\* the ids of the rows on the page
RowsOnPage == {paginatedInvoices[k] : k \in 1..Len(paginatedInvoices)}

\* every row is rendered with the edit and delete buttons
RowHasEditDelete_AnyStatus(i) == TRUE

\* {invoice.status === 'draft' && (<> edit and delete buttons </>)}
RowHasEditDelete(i) == Invoice(i).status = "draft"

(***************************************************************************)
(* InvoiceList: handlers                                                   *)
(***************************************************************************)
\* useEffect(() => { loadInvoices(); loadStats(); },
\*           [activeFilter, dateRange, sortConfig]) after a render with the
\* state filter, range, sc
Effect(filter, range, sc) ==
  /\ inflight' = Append(inflight,
                        Pending("load", NoInvoice, Request(filter, range, sc),
                                FALSE))
  /\ statsPending' = statsPending + 1

\* setActiveFilter, setCurrentPage(1), setDateRange unless filter is history
handleFilter(filter) ==
  /\ ~loading
  /\ activeFilter' = IF activeFilter = filter THEN "" ELSE filter
  /\ currentPage' = 1
  /\ dateRange' = IF filter # "history" THEN EmptyRange ELSE dateRange
  /\ Effect(activeFilter', dateRange', sortConfig)
  /\ ui' = Step("filter", NoInvoice)
  /\ UNCHANGED <<server, invoices, loading, selectedInvoice, showEditModal,
                 sortConfig, stats, search>>

\* onChange of the first date input
setStartDate(d) ==
  /\ ~loading
  /\ d # dateRange.startDate
  /\ dateRange' = [dateRange EXCEPT !.startDate = d]
  /\ Effect(activeFilter, dateRange', sortConfig)
  /\ ui' = Step("startDate", NoInvoice)
  /\ UNCHANGED <<server, invoices, loading, selectedInvoice, showEditModal,
                 currentPage, activeFilter, sortConfig, stats, search>>

\* onChange of the second date input
setEndDate(d) ==
  /\ ~loading
  /\ d # dateRange.endDate
  /\ dateRange' = [dateRange EXCEPT !.endDate = d]
  /\ Effect(activeFilter, dateRange', sortConfig)
  /\ ui' = Step("endDate", NoInvoice)
  /\ UNCHANGED <<server, invoices, loading, selectedInvoice, showEditModal,
                 currentPage, activeFilter, sortConfig, stats, search>>

\* desc when the column is the sort column and the direction is asc, else asc
handleSort(key) ==
  /\ ~loading
  /\ sortConfig' =
       [key |-> key,
        direction |-> IF sortConfig.key = key /\ sortConfig.direction = "asc"
                      THEN "desc" ELSE "asc"]
  /\ Effect(activeFilter, dateRange, sortConfig')
  /\ ui' = Step("sort", NoInvoice)
  /\ UNCHANGED <<server, invoices, loading, selectedInvoice, showEditModal,
                 currentPage, activeFilter, dateRange, stats, search>>

\* the refresh button: onClick={loadInvoices}
refresh ==
  /\ ~loading
  /\ inflight' = Append(inflight,
                        Pending("load", NoInvoice,
                                Request(activeFilter, dateRange, sortConfig),
                                FALSE))
  /\ ui' = Step("refresh", NoInvoice)
  /\ UNCHANGED <<server, invoices, loading, selectedInvoice, showEditModal,
                 currentPage, activeFilter, dateRange, sortConfig, stats,
                 statsPending, search>>

\* the requests sent before the k-th learn that a later one has resolved
MarkOvertaken(seq, k) ==
  [j \in 1..Len(seq) |-> IF j < k /\ seq[j].kind = "load"
                         THEN [seq[j] EXCEPT !.overtaken = TRUE] ELSE seq[j]]

\* a response is dropped when a loadInvoices called later has resolved
loadInvoicesResolved_LatestOnly(k) ==
  /\ k \in DOMAIN inflight
  /\ inflight[k].kind = "load"
  /\ invoices' = IF inflight[k].overtaken THEN invoices
                 ELSE LoadedInvoices(getInvoices(server), inflight[k].req)
  /\ loading' = FALSE
  /\ inflight' = RemoveAt(MarkOvertaken(inflight, k), k)
  /\ statsPending' = IF inflight[k].thenStats THEN statsPending + 1
                     ELSE statsPending
  /\ ui' = [op |-> "loaded", id |-> NoInvoice, req |-> inflight[k].req,
            overtaken |-> inflight[k].overtaken]
  /\ UNCHANGED <<server, selectedInvoice, showEditModal, currentPage,
                 activeFilter, dateRange, sortConfig, stats, search>>

\* getInvoices of the k-th request returns data: loadInvoices filters and sorts
\* them with the state of its call, setInvoices, and finally setLoading(false)
loadInvoicesResolved(k) ==
  /\ k \in DOMAIN inflight
  /\ inflight[k].kind = "load"
  /\ invoices' = LoadedInvoices(getInvoices(server), inflight[k].req)
  /\ loading' = FALSE
  /\ inflight' = RemoveAt(MarkOvertaken(inflight, k), k)
  /\ statsPending' = IF inflight[k].thenStats THEN statsPending + 1
                     ELSE statsPending
  /\ ui' = [op |-> "loaded", id |-> NoInvoice, req |-> inflight[k].req,
            overtaken |-> inflight[k].overtaken]
  /\ UNCHANGED <<server, selectedInvoice, showEditModal, currentPage,
                 activeFilter, dateRange, sortConfig, stats, search>>

\* the list is emptied when the request fails
loadInvoicesFailed_ListCleared(k) ==
  /\ k \in DOMAIN inflight
  /\ inflight[k].kind = "load"
  /\ invoices' = <<>>
  /\ loading' = FALSE
  /\ inflight' = RemoveAt(inflight, k)
  /\ statsPending' = IF inflight[k].thenStats THEN statsPending + 1
                     ELSE statsPending
  /\ ui' = [op |-> "loadFailed", id |-> NoInvoice, req |-> inflight[k].req,
            overtaken |-> inflight[k].overtaken]
  /\ UNCHANGED <<server, selectedInvoice, showEditModal, currentPage,
                 activeFilter, dateRange, sortConfig, stats, search>>

\* getInvoices of the k-th request returns an error: if (error) throw error,
\* caught and logged, and finally setLoading(false)
loadInvoicesFailed(k) ==
  /\ k \in DOMAIN inflight
  /\ inflight[k].kind = "load"
  /\ loading' = FALSE
  /\ inflight' = RemoveAt(inflight, k)
  /\ statsPending' = IF inflight[k].thenStats THEN statsPending + 1
                     ELSE statsPending
  /\ ui' = [op |-> "loadFailed", id |-> NoInvoice, req |-> inflight[k].req,
            overtaken |-> inflight[k].overtaken]
  /\ UNCHANGED <<server, invoices, selectedInvoice, showEditModal, currentPage,
                 activeFilter, dateRange, sortConfig, stats, search>>

\* a request of loadStats returns the rows: setStats
loadStatsResolved ==
  /\ statsPending > 0
  /\ statsPending' = statsPending - 1
  /\ stats' = StatsOf(server)
  /\ ui' = Step("stats", NoInvoice)
  /\ UNCHANGED <<server, invoices, loading, selectedInvoice, showEditModal,
                 currentPage, activeFilter, dateRange, sortConfig, inflight,
                 search>>

\* a request of loadStats returns no data or throws: the statistics stay
loadStatsFailed ==
  /\ statsPending > 0
  /\ statsPending' = statsPending - 1
  /\ ui' = Step("statsFailed", NoInvoice)
  /\ UNCHANGED <<server, invoices, loading, selectedInvoice, showEditModal,
                 currentPage, activeFilter, dateRange, sortConfig, stats,
                 inflight, search>>

\* the edit button of a row of the page
handleEdit(i) ==
  /\ ~loading
  /\ i \in RowsOnPage
  /\ RowHasEditDelete(i)
  /\ selectedInvoice' = i
  /\ showEditModal' = TRUE
  /\ ui' = Step("edit", i)
  /\ UNCHANGED <<server, invoices, loading, currentPage, activeFilter,
                 dateRange, sortConfig, stats, inflight, statsPending, search>>

\* onClose of EditInvoiceModal
closeEditModal ==
  /\ showEditModal
  /\ showEditModal' = FALSE
  /\ selectedInvoice' = NoInvoice
  /\ ui' = Step("closeEdit", NoInvoice)
  /\ UNCHANGED <<server, invoices, loading, currentPage, activeFilter,
                 dateRange, sortConfig, stats, inflight, statsPending, search>>

\* the delete button of a row of the page; confirmed is the answer to
\* window.confirm: the delete is sent only when it is true
handleDelete(i, confirmed) ==
  /\ ~loading
  /\ i \in RowsOnPage
  /\ RowHasEditDelete(i)
  /\ inflight' = IF confirmed
                 THEN Append(inflight,
                             Pending("delete", i,
                                     Request(activeFilter, dateRange, sortConfig),
                                     FALSE))
                 ELSE inflight
  /\ ui' = Step(IF confirmed THEN "delete" ELSE "deleteCancelled", i)
  /\ UNCHANGED <<server, invoices, loading, selectedInvoice, showEditModal,
                 currentPage, activeFilter, dateRange, sortConfig, stats,
                 statsPending, search>>

\* the delete of the k-th request succeeds: handleDelete awaits loadInvoices,
\* called with the state of the click, and then loadStats
deleteResolved(k) ==
  /\ k \in DOMAIN inflight
  /\ inflight[k].kind = "delete"
  /\ server' = server \ {inflight[k].id}
  /\ inflight' = Append(RemoveAt(inflight, k),
                        Pending("load", NoInvoice, inflight[k].req, TRUE))
  /\ ui' = Step("deleted", inflight[k].id)
  /\ UNCHANGED <<invoices, loading, selectedInvoice, showEditModal,
                 currentPage, activeFilter, dateRange, sortConfig, stats,
                 statsPending, search>>

\* the delete of the k-th request returns an error: if (error) throw error,
\* caught and logged
deleteFailed(k) ==
  /\ k \in DOMAIN inflight
  /\ inflight[k].kind = "delete"
  /\ inflight' = RemoveAt(inflight, k)
  /\ ui' = Step("deleteFailed", inflight[k].id)
  /\ UNCHANGED <<server, invoices, loading, selectedInvoice, showEditModal,
                 currentPage, activeFilter, dateRange, sortConfig, stats,
                 statsPending, search>>

\* onChange of the search box: setSearch(e.target.value)
setSearch(text) ==
  /\ ~loading
  /\ text # search
  /\ search' = text
  /\ ui' = Step("search", NoInvoice)
  /\ UNCHANGED <<server, invoices, loading, selectedInvoice, showEditModal,
                 currentPage, activeFilter, dateRange, sortConfig, stats,
                 inflight, statsPending>>

\* the button Anterior: rendered when totalPages > 1, disabled on page 1
previousPage ==
  /\ ~loading
  /\ totalPages > 1
  /\ currentPage # 1
  /\ currentPage' = Max(1, currentPage - 1)
  /\ ui' = Step("previous", NoInvoice)
  /\ UNCHANGED <<server, invoices, loading, selectedInvoice, showEditModal,
                 activeFilter, dateRange, sortConfig, stats, inflight,
                 statsPending, search>>

\* the button Siguiente: rendered when totalPages > 1, disabled on the last page
nextPage ==
  /\ ~loading
  /\ totalPages > 1
  /\ currentPage # totalPages
  /\ currentPage' = Min(totalPages, currentPage + 1)
  /\ ui' = Step("next", NoInvoice)
  /\ UNCHANGED <<server, invoices, loading, selectedInvoice, showEditModal,
                 activeFilter, dateRange, sortConfig, stats, inflight,
                 statsPending, search>>

(***************************************************************************)
(* Specification                                                           *)
(***************************************************************************)
\* the tables before the first insert
InitDB ==
  /\ users = {}
  /\ profiles = [s \in KnownSchemas |-> EmptyTable]
  /\ clock = 0
  /\ resolved = <<>>
  /\ last = NoOp

\* InvoiceList is mounted: the effect has called loadInvoices and loadStats
InitUI ==
  /\ server = InvoiceIds
  /\ invoices = <<>>
  /\ loading = TRUE
  /\ selectedInvoice = NoInvoice
  /\ showEditModal = FALSE
  /\ currentPage = 1
  /\ activeFilter = ""
  /\ dateRange = EmptyRange
  /\ sortConfig = [key |-> "status", direction |-> "asc"]
  /\ stats = NoStats
  /\ search = <<>>
  /\ inflight = <<Pending("load", NoInvoice, NoRequest, FALSE)>>
  /\ statsPending = 1
  /\ ui = NoStep

Init == InitDB /\ InitUI

InsertAuthUser ==
  /\ \E NEWROW \in NewRows, header \in Headers, fault \in Faults :
        handle_new_auth_user(NEWROW, header, fault)
  /\ UNCHANGED uivars

ValidateLogin ==
  /\ \E user_id \in RequestedIds, p_schema \in RequestedSchemas :
        validate_login_access(user_id, p_schema)
  /\ UNCHANGED uivars

Next == InsertAuthUser \/ ValidateLogin

\* the database functions
Spec == Init /\ [][Next]_allvars

\* a profile row that exists before the identity is inserted into auth.users,
\* the case ON CONFLICT (id) is written for
LegacyRow(i, role) ==
  [email       |-> <<"old", i>>,
   full_name   |-> "Old",
   role        |-> role,
   status      |-> "inactive",
   schema_name |-> "legacy",
   created_at  |-> 0,
   updated_at  |-> 0]

\* one partition holds a row of an identity that is not in auth.users
InitConflict ==
  /\ users = {}
  /\ \E i \in Ids, s \in KnownSchemas, role \in {"admin", "user"} :
        profiles = [t \in KnownSchemas |->
                      IF t = s THEN (i :> LegacyRow(i, role)) ELSE EmptyTable]
  /\ clock = 0
  /\ resolved = <<>>
  /\ last = NoOp
  /\ InitUI

NextConflict == InsertAuthUser

\* the inserts into auth.users when profile rows exist beforehand
SpecConflict == InitConflict /\ [][NextConflict]_allvars

(***************************************************************************)
(* InvoiceList: specifications                                             *)
(***************************************************************************)
\* no request is on its way
Idle == inflight = <<>> /\ statsPending = 0

ClickFilter ==
  /\ Idle
  /\ \E filter \in FilterNames : handleFilter(filter)
  /\ UNCHANGED vars

ChangeStartDate ==
  /\ Idle
  /\ \E d \in DateInputs : setStartDate(d)
  /\ UNCHANGED vars

ChangeEndDate ==
  /\ Idle
  /\ \E d \in DateInputs : setEndDate(d)
  /\ UNCHANGED vars

ClickSort ==
  /\ Idle
  /\ \E key \in SortKeys : handleSort(key)
  /\ UNCHANGED vars

ClickRefresh == Idle /\ refresh /\ UNCHANGED vars

ClickEdit == Idle /\ (\E i \in InvoiceIds : handleEdit(i)) /\ UNCHANGED vars

CloseEdit == Idle /\ closeEditModal /\ UNCHANGED vars

ClickDelete ==
  /\ Idle
  /\ \E i \in InvoiceIds, confirmed \in BOOLEAN : handleDelete(i, confirmed)
  /\ UNCHANGED vars

ChangeSearch ==
  /\ Idle
  /\ \E text \in SearchInputs : setSearch(text)
  /\ UNCHANGED vars

ClickPrevious == Idle /\ previousPage /\ UNCHANGED vars

ClickNext == Idle /\ nextPage /\ UNCHANGED vars

LoadResolves == (\E k \in DOMAIN inflight : loadInvoicesResolved(k)) /\ UNCHANGED vars

LoadFails == (\E k \in DOMAIN inflight : loadInvoicesFailed(k)) /\ UNCHANGED vars

StatsResolve == loadStatsResolved /\ UNCHANGED vars

StatsFail == loadStatsFailed /\ UNCHANGED vars

DeleteResolves == (\E k \in DOMAIN inflight : deleteResolved(k)) /\ UNCHANGED vars

DeleteFails == (\E k \in DOMAIN inflight : deleteFailed(k)) /\ UNCHANGED vars

\* the user acts when the list has loaded and every request succeeds
NextUI ==
  \/ ClickFilter \/ ChangeStartDate \/ ChangeEndDate \/ ClickSort
  \/ ClickRefresh \/ ClickEdit \/ CloseEdit \/ ClickDelete
  \/ ChangeSearch \/ ClickPrevious \/ ClickNext
  \/ LoadResolves \/ StatsResolve \/ DeleteResolves

SpecUI == Init /\ [][NextUI]_allvars

ToggleHistory == Idle /\ handleFilter("history") /\ UNCHANGED vars

ToggleStatusSort == Idle /\ handleSort("status") /\ UNCHANGED vars

\* the user acts when the list has loaded; a request succeeds or fails
NextFailure ==
  \/ ToggleHistory \/ ToggleStatusSort \/ ClickRefresh \/ ClickDelete
  \/ LoadResolves \/ LoadFails \/ StatsResolve \/ StatsFail
  \/ DeleteResolves \/ DeleteFails

SpecFailure == Init /\ [][NextFailure]_allvars

\* number of requests of loadInvoices, and of loadStats, on their way at a time
MaxInFlight == 2

\* the user does not wait for the responses
Room == Len(inflight) < MaxInFlight /\ statsPending < MaxInFlight

RapidHistory == Room /\ handleFilter("history") /\ UNCHANGED vars

RapidStatusSort == Room /\ handleSort("status") /\ UNCHANGED vars

RapidEndDate == Room /\ (\E d \in DateInputs : setEndDate(d)) /\ UNCHANGED vars

\* filter, date and sort changes that follow each other before the responses
NextOverlap ==
  \/ RapidHistory \/ RapidStatusSort \/ RapidEndDate
  \/ LoadResolves \/ StatsResolve

SpecOverlap == Init /\ [][NextOverlap]_allvars

(***************************************************************************)
(* Properties                                                              *)
(***************************************************************************)
\* the partitions that hold a row of identity i
PartitionsOf(i) == {s \in KnownSchemas : i \in DOMAIN profiles[s]}

\* a committed INSERT INTO auth.users is the step that just happened
InsertCommitted == last.op = "insert" /\ last.outcome = "committed"

\* C1: validate_login_access(user_id, p_schema) returns false when no
\* partition holds a row of user_id, true when a row of user_id has role admin
\* whatever p_schema is, and otherwise true exactly when the schema_name of the
\* identity's row equals p_schema.
C1_ValidateLoginAccess ==
  last.op = "validate" =>
    LET found == PartitionsOf(last.id)
    IN  /\ found = {} => last.result = "false"
        /\ (\E s \in found : profiles[s][last.id].role = "admin")
             => last.result = "true"
        /\ (found # {} /\ \A s \in found : profiles[s][last.id].role # "admin")
             => (last.result = "true" <=>
                   \A s \in found : profiles[s][last.id].schema_name = last.p_schema)

\* a regular user of one tenant was refused another tenant
C1_Witness ==
  /\ last.op = "validate"
  /\ last.result = "false"
  /\ last.p_schema = "qalinkforce"
  /\ PartitionsOf(last.id) = {"quimicinter"}
  /\ profiles["quimicinter"][last.id].role = "user"

\* C2: an insert without role metadata, made when some profile row already
\* references the resolved tenant, resolves the role user, for every tenant.
C2_LaterIdentityIsUser ==
  [][(/\ users' # users
      /\ last'.metaRole = NULL
      /\ \E s \in KnownSchemas : \E i \in DOMAIN profiles[s] :
            profiles[s][i].schema_name = last'.v_schema)
       => last'.v_role = "user"]_vars

\* C3: the first identity inserted without role metadata into a tenant whose
\* partition holds no row gets the role admin.
C3_FirstIdentityIsAdmin ==
  [][(/\ users' # users
      /\ last'.metaRole = NULL
      /\ DOMAIN profiles[last'.v_schema] = {})
       => /\ last'.v_role = "admin"
          /\ profiles'[last'.v_schema][last'.id].role = "admin"]_vars

\* the first identity of quimicinter, created without role metadata, is admin
C3_Witness ==
  /\ InsertCommitted
  /\ last.metaRole = NULL
  /\ last.v_schema = "quimicinter"
  /\ DOMAIN profiles["quimicinter"] = {last.id}
  /\ profiles["quimicinter"][last.id].role = "admin"

\* C8: v_schema is the metadata schema_name when present, else the header
\* x-schema-name when present, else public; the profile row of the identity is
\* written into that partition.
C8_ResolvedTenant ==
  last.op = "insert" =>
    /\ last.metaSchema # NULL => last.v_schema = last.metaSchema
    /\ (last.metaSchema = NULL /\ last.header # NULL)
         => last.v_schema = last.header
    /\ (last.metaSchema = NULL /\ last.header = NULL)
         => last.v_schema = "public"
    /\ last.outcome = "committed"
         => /\ last.id \in DOMAIN profiles[last.v_schema]
            /\ profiles[last.v_schema][last.id].schema_name = last.v_schema

\* an identity without metadata and header landed in public
C8_Witness ==
  /\ InsertCommitted
  /\ last.metaSchema = NULL
  /\ last.header = NULL
  /\ last.id \in DOMAIN profiles["public"]

\* the identities that hold the role admin
Admins == {i \in users : resolved[i].v_role = "admin"}

\* the identities that hold the role user
RegularUsers == {i \in users : resolved[i].v_role = "user"}

\* C4 as stated: every administrator has a profile row in every known tenant,
\* public included.
C4_AdminInEveryKnownTenant ==
  \A i \in Admins : PartitionsOf(i) = KnownSchemas

\* C4 as amended: every administrator has a profile row in quimicinter and in
\* qalinkforce, and one in public exactly when public was its resolved tenant.
C4_AdminInReplicationSet ==
  \A i \in Admins :
    /\ ReplicationSet \subseteq PartitionsOf(i)
    /\ "public" \in PartitionsOf(i) <=> resolved[i].v_schema = "public"

\* an administrator resolved to qalinkforce has no row in public
C4_Witness ==
  \E i \in Admins :
    /\ resolved[i].v_schema = "qalinkforce"
    /\ PartitionsOf(i) = ReplicationSet

\* C5: after a committed insert whose resolved role is admin, quimicinter and
\* qalinkforce each hold a row of the new identity with role admin, whichever
\* tenant was resolved.
C5_AdminRowsAfterInsert ==
  (InsertCommitted /\ last.v_role = "admin") =>
    \A s \in ReplicationSet :
      /\ last.id \in DOMAIN profiles[s]
      /\ profiles[s][last.id].role = "admin"
      /\ profiles[s][last.id].schema_name = s

\* an administrator resolved to public was replicated into both tenants
C5_Witness ==
  /\ InsertCommitted
  /\ last.v_role = "admin"
  /\ last.v_schema = "public"
  /\ PartitionsOf(last.id) = KnownSchemas

\* C6: an insert writes rows of the new identity only, into the resolved
\* partition and, for an administrator, into the partitions of the replication
\* set; an administrator created with schema_name = quimicinter gets rows in
\* quimicinter and qalinkforce and public.profiles is not written; a statement
\* that creates no identity writes nothing.
C6_InsertFrame ==
  [][IF users' # users
     THEN LET id == last'.id
              written == {last'.v_schema} \cup
                           (IF last'.v_role = "admin" THEN ReplicationSet ELSE {})
          IN  /\ \A s \in KnownSchemas \ written : profiles'[s] = profiles[s]
              /\ \A s \in written : DOMAIN profiles'[s] = DOMAIN profiles[s] \cup {id}
              /\ \A s \in KnownSchemas : \A i \in DOMAIN profiles[s] :
                    i # id => profiles'[s][i] = profiles[s][i]
              /\ (last'.metaSchema = "quimicinter" /\ last'.v_role = "admin")
                    => /\ written = ReplicationSet
                       /\ profiles'["public"] = profiles["public"]
     ELSE profiles' = profiles]_vars

\* an administrator created with schema_name = quimicinter beside an identity
\* created earlier
C6_Witness ==
  /\ InsertCommitted
  /\ last.metaSchema = "quimicinter"
  /\ last.metaRole = "admin"
  /\ PartitionsOf(last.id) = ReplicationSet
  /\ \E i \in users \ {last.id} : PartitionsOf(i) # {}

\* C7: every regular user has exactly one profile row over all partitions: it
\* is in the tenant resolved when the identity was created and its schema_name
\* is that tenant.
C7_RegularUserOneRow ==
  \A i \in RegularUsers :
    /\ PartitionsOf(i) = {resolved[i].v_schema}
    /\ profiles[resolved[i].v_schema][i].schema_name = resolved[i].v_schema
    /\ profiles[resolved[i].v_schema][i].role = "user"

\* two regular users, one of them in qalinkforce
C7_Witness ==
  /\ Cardinality(RegularUsers) >= 2
  /\ \E i \in RegularUsers : resolved[i].v_schema = "qalinkforce"

\* C9: all the rows of an identity carry the same role, so every row that
\* LIMIT 1 can take gives validate_login_access the same result.
C9_RoleConsistent ==
  \A i \in Ids :
    /\ \A s, t \in PartitionsOf(i) : profiles[s][i].role = profiles[t][i].role
    /\ \A p \in RequestedSchemas : Cardinality(AccessResults(profiles, i, p)) = 1

\* a login of an identity with rows in three partitions was validated
C9_Witness ==
  /\ last.op = "validate"
  /\ Cardinality(PartitionsOf(last.id)) = 3
  /\ last.p_schema = UnknownSchema
  /\ last.result = "true"

\* C10 as stated: the insert into auth.users succeeds whatever the outcome of
\* the upserts of the trigger.
C10_InsertNeverRejected ==
  last.op = "insert" => last.id \in users

\* C10 as amended: the insert into auth.users succeeds exactly when no upsert
\* of the trigger fails; when one fails, as the first does when the resolved
\* tenant has no partition, the error aborts the insert and neither the
\* identity nor a profile row of it is kept.
C10_RejectedIffUpsertFails ==
  last.op = "insert" =>
    /\ last.outcome = "committed" <=> last.failedAt = 0
    /\ last.v_schema \notin KnownSchemas => last.failedAt = 1
    /\ last.outcome = "committed" => last.id \in users
    /\ last.outcome = "aborted"
         => /\ last.id \notin users
            /\ PartitionsOf(last.id) = {}

\* an insert resolved to a tenant without partition was rejected after another
\* identity had been created
C10_Witness ==
  /\ last.op = "insert"
  /\ last.outcome = "aborted"
  /\ last.v_schema = UnknownSchema
  /\ last.id \notin users
  /\ users # {}

\* the partitions a committed insert with this v_schema and v_role writes
WrittenPartitions(v_schema, v_role) ==
  {v_schema} \cup (IF v_role = "admin" THEN ReplicationSet ELSE {})

\* C11: when an upsert of the trigger fails the insert into auth.users is
\* aborted and the rows written before the error are rolled back with it: the
\* identity has no row in any partition, and every identity that has a row is
\* in auth.users with all the rows of its invocation.
C11_AbortRollsBack ==
  /\ (last.op = "insert" /\ last.failedAt # 0)
       => /\ last.outcome = "aborted"
          /\ last.id \notin users
          /\ PartitionsOf(last.id) = {}
  /\ \A i \in Ids :
       PartitionsOf(i) # {}
         => /\ i \in users
            /\ PartitionsOf(i) =
                 WrittenPartitions(resolved[i].v_schema, resolved[i].v_role)

\* the insert into qalinkforce.profiles failed after two rows of the
\* administrator had been written, and none of them is left
C11_Witness ==
  /\ last.op = "insert"
  /\ last.failedAt = 3
  /\ last.v_role = "admin"
  /\ last.v_schema = "public"
  /\ PartitionsOf(last.id) = {}
  /\ users # {}

\* C12: when a row with the id of the new identity exists in a partition the
\* trigger writes, the upsert sets email, full_name, role and updated_at of that
\* row and leaves created_at, status and schema_name as they were; a row in a
\* partition the trigger does not write is left as it was.
C12_ConflictUpdate ==
  [][users' # users =>
       \A s \in KnownSchemas :
         last'.id \in DOMAIN profiles[s] =>
           LET old == profiles[s][last'.id]
               new == profiles'[s][last'.id]
           IN  IF s \in WrittenPartitions(last'.v_schema, last'.v_role)
               THEN /\ new.created_at = old.created_at
                    /\ new.status = old.status
                    /\ new.schema_name = old.schema_name
                    /\ new.email = EmailOf(last'.id)
                    /\ new.full_name = IF NameOf(last'.id) = NULL THEN ""
                                       ELSE NameOf(last'.id)
                    /\ new.role = IF s = last'.v_schema THEN last'.v_role
                                  ELSE "admin"
                    /\ new.updated_at = clock'
               ELSE new = old]_vars

\* the row that existed before the insert was updated by it
C12_Witness ==
  /\ InsertCommitted
  /\ \E s \in KnownSchemas :
       /\ last.id \in DOMAIN profiles[s]
       /\ profiles[s][last.id].created_at = 0
       /\ profiles[s][last.id].status = "inactive"
       /\ profiles[s][last.id].schema_name = "legacy"
       /\ profiles[s][last.id].email = EmailOf(last.id)
       /\ profiles[s][last.id].role = "admin"
       /\ profiles[s][last.id].updated_at = clock

\* C20: validate_login_access grants an identity that is not an administrator
\* the tenant T exactly when T is the tenant resolved when the identity was
\* created; every identity created is granted its own tenant.
C20_OwnTenantOnly ==
  /\ (last.op = "validate" /\ last.id \in RegularUsers)
       => (last.result = "true" <=> last.p_schema = resolved[last.id].v_schema)
  /\ \A i \in users :
       AccessResults(profiles, i, resolved[i].v_schema) = {"true"}
  /\ \A i \in RegularUsers : \A T \in RequestedSchemas \ {resolved[i].v_schema} :
       "true" \notin AccessResults(profiles, i, T)

\* a regular user of qalinkforce was granted qalinkforce
C20_Witness ==
  /\ last.op = "validate"
  /\ last.id \in RegularUsers
  /\ resolved[last.id].v_schema = "qalinkforce"
  /\ last.p_schema = "qalinkforce"
  /\ last.result = "true"

(***************************************************************************)
(* InvoiceList: properties                                                 *)
(***************************************************************************)
\* both dates of the range are set
RangeComplete(range) == range.startDate # NoDate /\ range.endDate # NoDate

\* the ids of a list
IdsOf(list) == {list[k] : k \in 1..Len(list)}

\* the state of the component as a call of loadInvoices closes over it
PresentRequest == Request(activeFilter, dateRange, sortConfig)

\* C13: a complete date range and an active category filter are never set
\* together.
C13_NeverBoth == ~(RangeComplete(dateRange) /\ activeFilter # "")

\* C14: whatever the order in which the requests of loadInvoices resolve, the
\* list shown after a response is the one computed from the fetched rows with
\* the filter, date range and sort of the call that sent the request; the
\* request sent last, while no later one has resolved, carries the present
\* state.
C14_LastResponseWins ==
  /\ ui.op = "loaded"
       => invoices = LoadedInvoices(getInvoices(server), ui.req)
  /\ \A k \in DOMAIN inflight :
       (k = Len(inflight) /\ ~inflight[k].overtaken)
         => inflight[k].req = PresentRequest

\* the response of an earlier call resolved after the response of a later
\* call: the list at rest is not the list of the present filter and sort
C14_Witness ==
  /\ ui.op = "loaded"
  /\ ui.overtaken
  /\ inflight = <<>>
  /\ ui.req # PresentRequest
  /\ invoices # LoadedInvoices(getInvoices(server), PresentRequest)

\* C15: with no category filter the list loadInvoices computes holds exactly
\* the fetched invoices with status draft or issued, within the date range when
\* one is set: no voided invoice, and a draft invoice with payment pending.
C15_DefaultFilter ==
  (ui.op = "loaded" /\ ui.req.activeFilter = "") =>
    /\ IdsOf(invoices) =
         {i \in server :
            /\ Invoice(i).status \in {"draft", "issued"}
            /\ RangeComplete(ui.req.dateRange)
                 => /\ Invoice(i).issue_date >= ui.req.dateRange.startDate
                    /\ Invoice(i).issue_date <= ui.req.dateRange.endDate}
    /\ Len(invoices) = Cardinality(IdsOf(invoices))
    /\ \A i \in server :
         (Invoice(i).status = "draft" /\ ~RangeComplete(ui.req.dateRange))
           => i \in IdsOf(invoices)

\* the list of a date range holds the draft invoice of the range and not the
\* voided one
C15_Witness ==
  /\ ui.op = "loaded"
  /\ ui.req.activeFilter = ""
  /\ RangeComplete(ui.req.dateRange)
  /\ 1 \in IdsOf(invoices)
  /\ Invoice(1).status = "draft" /\ Invoice(1).payment_status = "pending"
  /\ 3 \in server /\ Invoice(3).status = "voided"
  /\ Invoice(3).issue_date = ui.req.dateRange.startDate
  /\ 3 \notin IdsOf(invoices)

\* C16: every change of the filter, a category selected or deselected or a
\* date of the range changed, sets the current page to 1.
C16_PageResetOnFilterChange ==
  [][ui'.op \in {"filter", "startDate", "endDate"} => currentPage' = 1]_uivars

\* the list sorted by status in ascending direction for the same rows
AscendingOf(req) ==
  LoadedInvoices(getInvoices(server),
                 [req EXCEPT !.sortConfig.direction = "asc"])

\* the list was loaded for the sort by status in descending direction
LoadedStatusDesc ==
  /\ ui.op = "loaded"
  /\ ui.req.sortConfig = [key |-> "status", direction |-> "desc"]

\* C17 as stated: the list sorted by status in descending direction is the
\* exact reverse of the list sorted in ascending direction.
C17_ExactReverse ==
  LoadedStatusDesc =>
    LET asc == AscendingOf(ui.req)
    IN  invoices = [k \in 1..Len(asc) |-> asc[Len(asc) + 1 - k]]

\* C17 as amended: the statuses of the descending list are the reverse of the
\* statuses of the ascending list; invoices of equal status keep their fetched
\* order in both directions, so the list is the exact reverse when no two of
\* its invoices share a status.
C17_StatusesReversed ==
  LoadedStatusDesc =>
    LET asc == AscendingOf(ui.req)
        n   == Len(asc)
    IN  /\ Len(invoices) = n
        /\ IdsOf(invoices) = IdsOf(asc)
        /\ \A k \in 1..n :
             Invoice(invoices[k]).status = Invoice(asc[n + 1 - k]).status
        /\ \A j, k \in 1..n :
             (j < k /\ Invoice(invoices[j]).status = Invoice(invoices[k]).status)
               => invoices[j] < invoices[k]
        /\ \A j, k \in 1..n :
             (j < k /\ Invoice(asc[j]).status = Invoice(asc[k]).status)
               => asc[j] < asc[k]
        /\ (\A j, k \in 1..n :
              j # k => Invoice(asc[j]).status # Invoice(asc[k]).status)
             => invoices = [k \in 1..n |-> asc[n + 1 - k]]

\* three invoices of three statuses are listed voided, issued, draft
C17_Witness ==
  /\ LoadedStatusDesc
  /\ Len(invoices) = 3
  /\ Invoice(invoices[1]).status = "voided"
  /\ Invoice(invoices[2]).status = "issued"
  /\ Invoice(invoices[3]).status = "draft"

\* C18: handleEdit and handleDelete are called for draft invoices only: the
\* invoice edited, the invoice whose delete is asked, sent or done, is a draft.
C18_DraftOnly ==
  /\ ui.op \in {"edit", "delete", "deleteCancelled", "deleted"}
       => Invoice(ui.id).status = "draft"
  /\ showEditModal => Invoice(selectedInvoice).status = "draft"
  /\ \A k \in DOMAIN inflight :
       inflight[k].kind = "delete" => Invoice(inflight[k].id).status = "draft"
  /\ \A i \in InvoiceIds \ server : Invoice(i).status = "draft"

\* the draft invoice was deleted from a list that shows issued invoices too
C18_Witness ==
  /\ ui.op = "deleted"
  /\ ui.id \notin server
  /\ \E i \in IdsOf(invoices) : Invoice(i).status = "issued"

\* C19: an error returned to loadInvoices leaves the list as it was and clears
\* the loading flag, nothing else changes; a failed delete leaves the list, the
\* statistics and the backend rows as they were and reloads nothing.
C19_ErrorsSwallowed ==
  [][/\ ui'.op = "loadFailed"
          => /\ invoices' = invoices
             /\ loading' = FALSE
             /\ UNCHANGED <<server, stats, currentPage, activeFilter, dateRange,
                            sortConfig, selectedInvoice, showEditModal>>
     /\ ui'.op = "deleteFailed"
          => /\ UNCHANGED <<server, invoices, stats, loading, statsPending>>
             /\ Len(inflight') = Len(inflight) - 1]_uivars

\* the reload of the history failed: the list of the earlier filter stays
C19_Witness ==
  /\ ui.op = "loadFailed"
  /\ ~loading
  /\ inflight = <<>>
  /\ invoices # <<>>
  /\ invoices # LoadedInvoices(getInvoices(server), PresentRequest)

\* C21: in every reachable state the current page is a page that exists,
\* 1 <= currentPage <= max(1, totalPages), and a result set that is not empty
\* never renders an empty page.
C21_PageExists ==
  /\ 1 <= currentPage
  /\ currentPage <= Max(1, totalPages)
  /\ filteredInvoices # <<>> => paginatedInvoices # <<>>

====
